---------------------------- MODULE Spec2Model ----------------------------
(***************************************************************************)
(* Climate-corrected Bullard plots: the functions of the notebook          *)
(* (thermal_resistance, least_squares, climate_correction_period, y2s),    *)
(* the decadal aggregation of the instrumental record, and the borehole    *)
(* loop with its Monte Carlo sensitivity analysis.                         *)
(*                                                                         *)
(* Numbers.  A numpy float is modelled as an exact rational <<n, d>> with  *)
(* d > 0 and gcd(n, d) = 1.  Depths are in km and times in Ms (1e6 s), so  *)
(* that the diffusivity k/(cp*rho) keeps the numerical value it has in     *)
(* m^2/s.  erfc is tabulated (erfc(0) = 1 exactly, non-increasing, 0 for   *)
(* large arguments).  The clip bounds 1e-6 and 1e99 on times are held as   *)
(* tmin and tmax, scaled to stay inside TLC's integers.                    *)
(***************************************************************************)
EXTENDS Integers, Sequences, FiniteSets, TLC

VARIABLES
    \* ---- module-level names of the notebook
    t0, t1, Tc, sigma_Tc,        \* palaeoclimate epochs (lines 129-133)
    t0b, t1b, T0_40N2,           \* instrumental decadal epochs (160-173)
    csvfiles,                    \* the borehole files, as their columns
    q_all, qc_all, c_all, cc_all,\* storage arrays (261-264)
    f,                           \* position of the for loop over csvfiles
    z, z_k, k, sigma_k,          \* load_borehole's results (273)
    heap,                        \* the ndarray objects T, sigma_T, spl(z_k), T_random
    T_k, sigma_T_k, T_random,    \* names bound to objects of heap
    T_all,                       \* (nsim x T_k.size) array (285)
    i, j,                        \* loop indices
    k_random, a_random, R,       \* per-iteration arrays
    q, c, qc, cc,                \* per-iteration fits
    t0_random, t1_random, Tc_random,
    summary,                     \* rows written to borehole_summary.dat (370)
    pc,                          \* position in the cell
    \* ---- history of the current iteration / borehole
    T_pert,                      \* value of T_random as drawn at line 290
    epochs,                      \* the epochs handed to climate_correction_period
    filled,                      \* slots of the storage arrays written for this file
    \* ---- a single call of one function, for the function contracts
    call, ret

vars == << t0, t1, Tc, sigma_Tc, t0b, t1b, T0_40N2, csvfiles,
           q_all, qc_all, c_all, cc_all, f, z, z_k, k, sigma_k,
           heap, T_k, sigma_T_k, T_random, T_all, i, j,
           k_random, a_random, R, q, c, qc, cc,
           t0_random, t1_random, Tc_random, summary, pc,
           T_pert, epochs, filled, call, ret >>

----------------------------------------------------------------------------
(* Rational arithmetic *)

Abs(n) == IF n < 0 THEN -n ELSE n

RECURSIVE GCD(_, _)
GCD(a, b) == IF b = 0 THEN a ELSE GCD(b, a % b)

Q(n, d) ==
    LET g == GCD(Abs(n), Abs(d))
        s == IF d < 0 THEN -1 ELSE 1
    IN  << s * (n \div g), s * (d \div g) >>

Zero == << 0, 1 >>
One  == << 1, 1 >>
QInt(n) == << n, 1 >>

QNeg(a) == << -a[1], a[2] >>
QAdd(a, b) ==
    LET g == GCD(a[2], b[2])
    IN  Q(a[1] * (b[2] \div g) + b[1] * (a[2] \div g), (a[2] \div g) * b[2])
QSub(a, b) == QAdd(a, QNeg(b))
QMul(a, b) ==
    LET g1 == GCD(Abs(a[1]), b[2])
        g2 == GCD(Abs(b[1]), a[2])
    IN  Q((a[1] \div g1) * (b[1] \div g2), (a[2] \div g2) * (b[2] \div g1))
QInv(a) == IF a[1] < 0 THEN << -a[2], -a[1] >> ELSE << a[2], a[1] >>
QDiv(a, b) == QMul(a, QInv(b))
\* -1, 0 or 1 as a < b, a = b or a > b: by integer parts, then by the
\* reciprocals of the fractional parts (no product is formed)
RECURSIVE QCmp(_, _)
QCmp(a, b) ==
    LET fa == a[1] \div a[2]
        fb == b[1] \div b[2]
        ra == a[1] % a[2]
        rb == b[1] % b[2]
    IN  IF fa < fb THEN -1
        ELSE IF fa > fb THEN 1
        ELSE IF ra = 0 /\ rb = 0 THEN 0
        ELSE IF ra = 0 THEN -1
        ELSE IF rb = 0 THEN 1
        ELSE QCmp(<< b[2], rb >>, << a[2], ra >>)
QLe(a, b) == QCmp(a, b) <= 0
QLt(a, b) == QCmp(a, b) < 0
QMax(a, b) == IF QLe(a, b) THEN b ELSE a
QMin(a, b) == IF QLe(a, b) THEN a ELSE b

----------------------------------------------------------------------------
(* numpy on 1-d arrays (sequences of rationals) *)

np_ones(n)  == [x \in 1..n |-> One]
np_zeros(n) == [x \in 1..n |-> Zero]
np_hstack(a, b) == a \o b
np_diff(a) == [x \in 1..(Len(a) - 1) |-> QSub(a[x + 1], a[x])]

RECURSIVE SumTo(_, _)
SumTo(a, n) == IF n = 0 THEN Zero ELSE QAdd(SumTo(a, n - 1), a[n])
np_sum(a) == SumTo(a, Len(a))
np_cumsum(a) == [x \in 1..Len(a) |-> SumTo(a, x)]
np_mean(a) == QDiv(np_sum(a), QInt(Len(a)))

\* Shapes that numpy broadcasts against each other.
Broadcastable(a, b) == Len(a) = Len(b) \/ Len(a) = 1 \/ Len(b) = 1
BLen(a, b) == IF Len(a) >= Len(b) THEN Len(a) ELSE Len(b)
At(a, x) == IF Len(a) = 1 THEN a[1] ELSE a[x]

np_add(a, b) == [x \in 1..BLen(a, b) |-> QAdd(At(a, x), At(b, x))]
np_sub(a, b) == [x \in 1..BLen(a, b) |-> QSub(At(a, x), At(b, x))]
np_mul(a, b) == [x \in 1..BLen(a, b) |-> QMul(At(a, x), At(b, x))]
np_div(a, b) == [x \in 1..BLen(a, b) |-> QDiv(At(a, x), At(b, x))]
np_scale(s, a) == [x \in 1..Len(a) |-> QMul(s, a[x])]

np_clip(x, lo, hi) == QMin(QMax(x, lo), hi)
np_clip_array(a, lo, hi) == [x \in 1..Len(a) |-> np_clip(a[x], lo, hi)]

\* np.std(a): the square root of the mean squared deviation.  The root is
\* kept symbolic: times * sqrt(sqrt_of).
np_var(a) ==
    LET mu == np_mean(a)
    IN  np_mean([x \in 1..Len(a) |-> QMul(QSub(a[x], mu), QSub(a[x], mu))])
np_std(a) == [sqrt_of |-> np_var(a), times |-> One]
StdTimes(s, scale) == [sqrt_of |-> s.sqrt_of, times |-> QMul(s.times, scale)]

----------------------------------------------------------------------------
(* Program constants *)

cp  == 800
rho == 2700
t_av == 10
MeasuredYear == 1974

\* y2s(t) = t*3.15567*1e7 seconds, here in Ms
y2s(t) == QMul(t, << 315567, 10000 >>)

\* clip bounds on times (1e-6 and 1e99 in the notebook), in Ms and scaled
tmin == << 1, 1000 >>
tmax == << 1000000, 1 >>
\* clip bounds on conductivity (0.001 and 1e99)
kmin == << 1, 1000 >>
kmax == << 1000000, 1 >>
\* the fixed standard deviations of lines 303-304 and 312
sigma_t    == y2s(QInt(1000))
sigma_T0_40N2 == << 1, 10 >>
\* *1e3 of lines 328-331
mW == QInt(1000)

----------------------------------------------------------------------------
(* scipy.special.erfc, tabulated on the square of its argument *)

erfc_sq(x2) ==
    IF x2[1] = 0 THEN One
    ELSE IF QLe(x2, << 1, 16 >>) THEN << 3, 4 >>
    ELSE IF QLe(x2, << 1, 4 >>)  THEN << 1, 2 >>
    ELSE IF QLe(x2, << 1, 1 >>)  THEN << 1, 8 >>
    ELSE IF QLe(x2, << 9, 4 >>)  THEN << 1, 32 >>
    ELSE Zero

\* erfc(z/(2.0*np.sqrt(kappa*t))), for kappa*t > 0
erfc_term(kappa, t, zz) ==
    erfc_sq(QDiv(QDiv(QMul(zz, zz), QMul(QInt(4), kappa)), t))

----------------------------------------------------------------------------
(* The functions of the notebook (lines 67-113) *)

\* def thermal_resistance(z, k): the body reads the module-level z_k, not
\* its parameter z.  delta_z/k raises ValueError on shapes that do not
\* broadcast.
thermal_resistance(zz, kk) ==
    LET delta_z == np_diff(np_hstack(<< Zero >>, z_k))
    IN  IF Broadcastable(delta_z, kk)
        THEN [raised |-> "", value |-> np_cumsum(np_div(delta_z, kk))]
        ELSE [raised |-> "ValueError", value |-> << >>]

AllEqual(a) == \A x \in 1..Len(a) : a[x] = a[1]

\* np.linalg.lstsq(A, T)[0] for A = [R, 1]: LinAlgError when T has not one
\* entry per row of A; the least-squares line when A has rank 2; the
\* solution of least norm when all R are equal (rank 1).  No other error.
lstsq_line(RR, TT) ==
    LET n   == QInt(Len(RR))
        sR  == np_sum(RR)
        sT  == np_sum(TT)
        sRT == np_sum(np_mul(RR, TT))
        sRR == np_sum(np_mul(RR, RR))
        m   == QDiv(QSub(QMul(n, sRT), QMul(sR, sT)),
                    QSub(QMul(n, sRR), QMul(sR, sR)))
    IN  << m, QDiv(QSub(sT, QMul(m, sR)), n) >>

lstsq_min_norm(RR, TT) ==
    LET r   == RR[1]
        den == QAdd(QMul(r, r), One)
        mu  == np_mean(TT)
    IN  << QDiv(QMul(r, mu), den), QDiv(mu, den) >>

least_squares(RR, TT) ==
    IF Len(RR) # Len(TT)
    THEN [raised |-> "LinAlgError", value |-> << >>]
    ELSE [raised |-> "",
          value  |-> IF AllEqual(RR) THEN lstsq_min_norm(RR, TT)
                     ELSE lstsq_line(RR, TT)]

\* def linear_func(p, x): m*x + c
linear_func(p, x) == QAdd(QMul(p[1], x), p[2])

\* the same with the second erfc term left out
ccp_end_only(kappa, ta, tb, Tk, zz) ==
    [x \in 1..BLen(kappa, zz) |-> QMul(Tk, erfc_term(At(kappa, x), tb, At(zz, x)))]

\* def climate_correction_period(kappa, t0, t1, Tk, z):
\*     Tk*(erfc(z/(2*sqrt(kappa*t1))) - erfc(z/(2*sqrt(kappa*t0))))
\* kappa and z are arrays (kappa may have one entry), ta, tb and Tk scalars.
climate_correction_period(kappa, ta, tb, Tk, zz) ==
    [x \in 1..BLen(kappa, zz) |->
        QMul(Tk, QSub(erfc_term(At(kappa, x), tb, At(zz, x)),
                      erfc_term(At(kappa, x), ta, At(zz, x))))]

\* np.random.normal(mu, sigma): the values one draw may return, at the
\* deviates -1 and +1 standard deviation (mu itself when sigma = 0).
Deviates == { -1, 1 }
normal(mu, sigma) == { QAdd(mu, QMul(QInt(d), sigma)) : d \in Deviates }

RECURSIVE normal_array(_, _)
normal_array(mu, sigma) ==
    IF Len(mu) = 0 THEN { << >> }
    ELSE { << h >> \o r : h \in normal(mu[1], At(sigma, 1)),
                          r \in normal_array(Tail(mu),
                                  IF Len(sigma) = 1 THEN sigma ELSE Tail(sigma)) }

----------------------------------------------------------------------------
(* Bounds of the model *)

\* nsim of the notebook is 10000 (line 242); the model runs nsim iterations
nsim == 2
\* the most borehole files in ../data/boreholes/
MaxFiles == 2

----------------------------------------------------------------------------
(* Data files *)

\* surface_temperature_history.csv: rows (end ka, start ka, dT, sigma dT)
Palaeo_wide   == << << QInt(1), QInt(4), QInt(-2), Zero >> >>
Palaeo_narrow == << << QInt(10), QInt(11), QInt(-2), << 1, 2 >> >> >>

\* ZonAnn.Ts+dSST.csv: one row per calendar year, (year, anomaly)
ZonAnnRows(first, n) ==
    [x \in 1..n |-> << first + x - 1, Q(first + x - 1 - 1950, 10) >>]

\* the two data files together
DataFiles ==
    { << Palaeo_wide, ZonAnnRows(1965, 10) >>,
      << Palaeo_narrow, ZonAnnRows(1965, 5) >> }

\* A borehole file: the columns (z, T, sigma_T) and (z_k, k, sigma_k),
\* blank cells already dropped.
Borehole(zs, Ts, sTs, zks, ks, sks) ==
    [z |-> zs, T |-> Ts, sigma_T |-> sTs, z_k |-> zks, k |-> ks, sigma_k |-> sks]

\* four temperatures on the line T = 10 + 20 z; the conductivity sample
\* at 1 km lies below the deepest temperature
BH_spline(sT, sk) ==
    Borehole(<< << 1, 100 >>, << 1, 10 >>, << 1, 5 >>, << 1, 2 >> >>,
             << << 51, 5 >>, QInt(12), QInt(14), QInt(20) >>,
             << sT, Zero, Zero, Zero >>,
             << << 1, 100 >>, << 1, 5 >>, QInt(1) >>,
             << QInt(3), QInt(2), QInt(2) >>,
             << Zero, sk, Zero >>)
\* two temperatures, conductivity sampled at the same two depths
BH_pair(sT, sk) ==
    Borehole(<< << 1, 10 >>, << 1, 2 >> >>,
             << QInt(12), QInt(20) >>,
             << sT, Zero >>,
             << << 1, 10 >>, << 1, 2 >> >>,
             << QInt(3), QInt(3) >>,
             << Zero, sk >>)
\* three temperatures at 0, 10, 20 m and two conductivities at 5, 15 m
BH_three ==
    Borehole(<< Zero, << 1, 100 >>, << 1, 50 >> >>,
             << QInt(10), << 21, 2 >>, QInt(11) >>,
             << << 1, 10 >>, Zero, Zero >>,
             << << 1, 200 >>, << 3, 200 >> >>,
             << QInt(3), << 16, 5 >> >>,
             << Zero, << 1, 10 >> >>)

\* the files a directory may hold, in the order os.listdir gives them
BoreholeFiles ==
    << BH_pair(Zero, Zero), BH_three, BH_spline(Zero, Zero),
       BH_pair(Zero, << 1, 2 >>), BH_pair(<< 1, 2 >>, Zero) >>

\* os.listdir of a directory that holds 1..n of the files
RECURSIVE Picked(_, _, _)
Picked(a, keep, x) ==
    IF x > Len(a) THEN << >>
    ELSE (IF x \in keep THEN << a[x] >> ELSE << >>) \o Picked(a, keep, x + 1)
Listings(a, n) ==
    { Picked(a, keep, 1) :
        keep \in { s \in SUBSET (1..Len(a)) : Cardinality(s) \in 1..n } }

----------------------------------------------------------------------------
(* The cells before the borehole loop *)

Column(rows, col) == [x \in 1..Len(rows) |-> rows[x][col]]

\* a[lo:hi] of a 0-based array
Slice(a, lo, hi) ==
    LET top == IF hi < Len(a) THEN hi ELSE Len(a)
    IN  [x \in 1..(top - lo) |-> a[lo + x]]

\* lines 130-133
palaeo_t0(rows) == [x \in 1..Len(rows) |-> y2s(QMul(rows[x][2], QInt(1000)))]
palaeo_t1(rows) == [x \in 1..Len(rows) |-> y2s(QMul(rows[x][1], QInt(1000)))]

\* lines 150-151
year_of(rows)   == [x \in 1..Len(rows) |-> y2s(QInt(MeasuredYear - rows[x][1]))]
T0_40N_of(rows) == [x \in 1..Len(rows) |-> QSub(rows[x][2], rows[Len(rows)][2])]

\* lines 162-169: the arrays have year.size//10 + 1 slots; block number
\* index takes the mean of a[index*t_av : index*t_av + t_av]; a slot the
\* loop does not reach keeps its 0.0
decadal(a) ==
    [x \in 1..((Len(a) \div 10) + 1) |->
        IF (x - 1) * t_av < Len(a)
        THEN np_mean(Slice(a, (x - 1) * t_av, (x - 1) * t_av + t_av))
        ELSE Zero]

\* lines 172-173
t1b_of(t0b_) ==
    np_hstack(np_add(Slice(t0b_, 0, Len(t0b_) - 1), np_diff(t0b_)), << Zero >>)

----------------------------------------------------------------------------
(* load_borehole (lines 46-64) and the interpolation (lines 276-283) *)

RECURSIVE Masked(_, _, _)
Masked(a, keep, x) ==
    IF x > Len(a) THEN << >>
    ELSE (IF x \in keep THEN << a[x] >> ELSE << >>) \o Masked(a, keep, x + 1)

RECURSIVE MaxOf(_, _)
MaxOf(a, n) == IF n = 1 THEN a[1] ELSE QMax(MaxOf(a, n - 1), a[n])

load_borehole(file) ==
    LET mask == { x \in 1..Len(file.z_k) : QLe(file.z_k[x], MaxOf(file.z, Len(file.z))) }
    IN  [z |-> file.z, T |-> file.T, sigma_T |-> file.sigma_T,
         z_k     |-> Masked(file.z_k, mask, 1),
         k       |-> Masked(file.k, mask, 1),
         sigma_k |-> Masked(file.sigma_k, mask, 1)]

\* UnivariateSpline(xs, ys)(x).  For measurements on a straight line the
\* smoothing spline is that line, so the value at x is the linear
\* interpolant of the two measurements around x.
Segment(xs, x) ==
    IF \E s \in 1..(Len(xs) - 1) : QLe(xs[s], x) /\ QLe(x, xs[s + 1])
    THEN CHOOSE s \in 1..(Len(xs) - 1) : QLe(xs[s], x) /\ QLe(x, xs[s + 1])
    ELSE IF QLt(x, xs[1]) THEN 1 ELSE Len(xs) - 1
spline_at(xs, ys, x) ==
    LET s == Segment(xs, x)
    IN  QAdd(ys[s], QMul(QSub(x, xs[s]),
                         QDiv(QSub(ys[s + 1], ys[s]), QSub(xs[s + 1], xs[s]))))
UnivariateSpline(xs, ys, at) == [x \in 1..Len(at) |-> spline_at(xs, ys, at[x])]

----------------------------------------------------------------------------
(* State after the cells before the borehole loop (lines 129-264) *)

NoCall == [fn |-> "none", zz |-> << >>, kk |-> << >>, RR |-> << >>, TT |-> << >>,
           kappa |-> << >>, ta |-> Zero, tb |-> Zero, tc |-> Zero, Tk |-> Zero]
NoRet  == [raised |-> "none", value |-> << >>]

Slots == 0..(nsim - 1)

SetupCells(pal, zon, files) ==
    /\ t0 = palaeo_t0(pal)
    /\ t1 = palaeo_t1(pal)
    /\ Tc = Column(pal, 3)
    /\ sigma_Tc = Column(pal, 4)
    /\ t0b = decadal(year_of(zon))
    /\ T0_40N2 = decadal(T0_40N_of(zon))
    /\ t1b = t1b_of(decadal(year_of(zon)))
    /\ csvfiles = files
    /\ q_all  = [s \in Slots |-> Zero]
    /\ qc_all = [s \in Slots |-> Zero]
    /\ c_all  = [s \in Slots |-> Zero]
    /\ cc_all = [s \in Slots |-> Zero]
    /\ f = 1
    /\ z = << >> /\ k = << >> /\ sigma_k = << >>
    /\ heap = [o \in {"T", "sigma_T", "spl_T", "spl_sigma_T", "T_random"} |-> << >>]
    /\ T_k = "T" /\ sigma_T_k = "sigma_T" /\ T_random = "T_random"
    /\ T_all = << >>
    /\ i = 0 /\ j = 0
    /\ k_random = << >> /\ a_random = << >> /\ R = << >>
    /\ q = Zero /\ c = Zero /\ qc = Zero /\ cc = Zero
    /\ t0_random = Zero /\ t1_random = Zero /\ Tc_random = Zero
    /\ summary = << >>
    /\ T_pert = << >> /\ epochs = << >> /\ filled = {}

Init ==
    /\ \E data \in DataFiles, files \in Listings(BoreholeFiles, MaxFiles) :
          SetupCells(data[1], data[2], files)
    /\ z_k = << >>
    /\ pc = "for_file"
    /\ call = NoCall /\ ret = NoRet

----------------------------------------------------------------------------
(* The borehole loop (lines 267-372) *)

setup_vars  == << t0, t1, Tc, sigma_Tc, t0b, t1b, T0_40N2, csvfiles >>
store_vars  == << q_all, qc_all, c_all, cc_all >>
file_vars   == << z, z_k, k, sigma_k, T_k, sigma_T_k >>
fit_vars    == << q, c, qc, cc >>
draw_vars   == << t0_random, t1_random, Tc_random >>
unit_vars   == << call, ret >>

\* the draw written into the array of the means
normal_in_place(mu_obj) == mu_obj

\* np.random.normal returns a new array object, never its argument
normal_out(mu_obj) == "T_random"

\* a loop that stops one iteration early
range_short(ix) == ix + 1 < nsim - 1

\* for i in range(0, nsim): whether an iteration follows iteration ix
range_nsim(ix) == ix + 1 < nsim

\* lines 267-285: next file, load it, interpolate, allocate T_all
LoadBorehole ==
    /\ pc = "for_file"
    /\ f <= Len(csvfiles)
    /\ LET b == load_borehole(csvfiles[f])
       IN  /\ z' = b.z
           /\ z_k' = b.z_k
           /\ k' = b.k
           /\ sigma_k' = b.sigma_k
           /\ IF Len(b.z) <= 3
              THEN /\ T_k' = "T"
                   /\ sigma_T_k' = "sigma_T"
                   /\ heap' = [heap EXCEPT !["T"] = b.T, !["sigma_T"] = b.sigma_T]
                   /\ T_all' = [s \in Slots |-> np_zeros(Len(b.T))]
              ELSE /\ T_k' = "spl_T"
                   /\ sigma_T_k' = "spl_sigma_T"
                   /\ heap' = [heap EXCEPT
                                 !["T"] = b.T, !["sigma_T"] = b.sigma_T,
                                 !["spl_T"] = UnivariateSpline(b.z, b.T, b.z_k),
                                 !["spl_sigma_T"] = UnivariateSpline(b.z, b.sigma_T, b.z_k)]
                   /\ T_all' = [s \in Slots |-> np_zeros(Len(b.z_k))]
    /\ i' = 0
    /\ filled' = {}
    /\ pc' = "for_i"
    /\ UNCHANGED << setup_vars, store_vars, f, T_random, j, k_random, a_random, R,
                    fit_vars, draw_vars, summary, T_pert, epochs, unit_vars >>

\* line 372: no file is left
CloseSummary ==
    /\ pc = "for_file"
    /\ f > Len(csvfiles)
    /\ pc' = "done"
    /\ UNCHANGED << setup_vars, store_vars, f, file_vars, heap, T_random, T_all, i, j,
                    k_random, a_random, R, fit_vars, draw_vars, summary,
                    T_pert, epochs, filled, unit_vars >>

\* lines 290-295: draw T_random and k_random, diffusivity, resistance
Perturb ==
    /\ pc = "for_i"
    /\ \E Tr \in normal_array(heap[T_k], heap[sigma_T_k]),
          kr \in normal_array(k, sigma_k) :
          LET kc  == np_clip_array(kr, kmin, kmax)
              res == thermal_resistance(z_k, kc)
          IN  /\ T_random' = normal_out(T_k)
              /\ heap' = [heap EXCEPT ![normal_out(T_k)] = Tr]
              /\ T_pert' = Tr
              /\ k_random' = kc
              /\ a_random' = np_scale(QInv(QInt(cp * rho)), kc)
              /\ R' = res.value
              /\ pc' = IF res.raised = "" THEN "fit" ELSE "error"
    /\ epochs' = << >>
    /\ UNCHANGED << setup_vars, store_vars, f, file_vars, T_all, i, j,
                    fit_vars, draw_vars, summary, filled, unit_vars >>

\* line 298: q, c = least_squares(R, T_random)
Fit ==
    /\ pc = "fit"
    /\ LET res == least_squares(R, heap[T_random])
       IN  IF res.raised = ""
           THEN /\ q' = res.value[1]
                /\ c' = res.value[2]
                /\ j' = 0
                /\ pc' = "palaeo"
           ELSE /\ pc' = "error"
                /\ UNCHANGED << q, c, j >>
    /\ UNCHANGED << setup_vars, store_vars, f, file_vars, heap, T_random, T_all, i,
                    k_random, a_random, R, qc, cc, draw_vars, summary,
                    T_pert, epochs, filled, unit_vars >>

\* the correction added twice
AddCorrectionTwice(ta, tb, Tk) ==
    heap' = [heap EXCEPT ![T_random] =
                np_add(np_add(heap[T_random],
                              climate_correction_period(a_random, ta, tb, Tk, z_k)),
                       climate_correction_period(a_random, ta, tb, Tk, z_k))]

\* T_random += climate_correction_period(a_random, t0_random, t1_random, Tc_random, z_k)
AddCorrection(ta, tb, Tk) ==
    heap' = [heap EXCEPT ![T_random] =
                np_add(heap[T_random],
                       climate_correction_period(a_random, ta, tb, Tk, z_k))]

\* lines 302-306: one palaeoclimate epoch
PalaeoEpoch ==
    /\ pc = "palaeo"
    /\ \E d0 \in normal(t0[j + 1], sigma_t), d1 \in normal(t1[j + 1], sigma_t),
          dT \in normal(Tc[j + 1], sigma_Tc[j + 1]) :
          /\ t0_random' = np_clip(d0, tmin, tmax)
          /\ t1_random' = np_clip(d1, tmin, tmax)
          /\ Tc_random' = dT
          /\ AddCorrection(t0_random', t1_random', Tc_random')
          /\ epochs' = Append(epochs, [set |-> "palaeo", index |-> j,
                                       t0 |-> t0_random', t1 |-> t1_random',
                                       Tc |-> Tc_random'])
    /\ IF j + 1 < Len(t0)
       THEN j' = j + 1 /\ pc' = "palaeo"
       ELSE j' = 0 /\ pc' = "nasa"
    /\ UNCHANGED << setup_vars, store_vars, f, file_vars, T_random, T_all, i,
                    k_random, a_random, R, fit_vars, summary, T_pert, filled,
                    unit_vars >>

\* lines 309-313: one instrumental epoch
NasaEpoch ==
    /\ pc = "nasa"
    /\ \E dT \in normal(T0_40N2[j + 1], sigma_T0_40N2) :
          /\ t0_random' = np_clip(t0b[j + 1], tmin, tmax)
          /\ t1_random' = np_clip(t1b[j + 1], tmin, tmax)
          /\ Tc_random' = dT
          /\ AddCorrection(t0_random', t1_random', Tc_random')
          /\ epochs' = Append(epochs, [set |-> "nasa", index |-> j,
                                       t0 |-> t0_random', t1 |-> t1_random',
                                       Tc |-> Tc_random'])
    /\ IF j + 1 < Len(t0b)
       THEN j' = j + 1 /\ pc' = "nasa"
       ELSE j' = j /\ pc' = "fit_c"
    /\ UNCHANGED << setup_vars, store_vars, f, file_vars, T_random, T_all, i,
                    k_random, a_random, R, fit_vars, summary, T_pert, filled,
                    unit_vars >>

\* line 316: qc, cc = least_squares(R, T_random)
FitCorrected ==
    /\ pc = "fit_c"
    /\ LET res == least_squares(R, heap[T_random])
       IN  IF res.raised = ""
           THEN /\ qc' = res.value[1]
                /\ cc' = res.value[2]
                /\ pc' = "store"
           ELSE /\ pc' = "error"
                /\ UNCHANGED << qc, cc >>
    /\ UNCHANGED << setup_vars, store_vars, f, file_vars, heap, T_random, T_all, i, j,
                    k_random, a_random, R, q, c, draw_vars, summary,
                    T_pert, epochs, filled, unit_vars >>

\* the corrected fit stored as the uncorrected one
stored_swapped(q_, c_, qc_, cc_) == << qc_, cc_, q_, c_ >>

\* lines 319-322: the values assigned to q_all[i], c_all[i], qc_all[i], cc_all[i]
stored(q_, c_, qc_, cc_) == << q_, c_, qc_, cc_ >>

\* lines 319-325: slot i of the storage arrays and row i of T_all
Store ==
    /\ pc = "store"
    /\ q_all'  = [q_all  EXCEPT ![i] = stored(q, c, qc, cc)[1]]
    /\ c_all'  = [c_all  EXCEPT ![i] = stored(q, c, qc, cc)[2]]
    /\ qc_all' = [qc_all EXCEPT ![i] = stored(q, c, qc, cc)[3]]
    /\ cc_all' = [cc_all EXCEPT ![i] = stored(q, c, qc, cc)[4]]
    /\ T_all'  = [T_all  EXCEPT ![i] = heap[T_random]]
    /\ filled' = filled \cup {i}
    /\ IF range_nsim(i)
       THEN i' = i + 1 /\ pc' = "for_i"
       ELSE i' = i /\ pc' = "aggregate"
    /\ UNCHANGED << setup_vars, f, file_vars, heap, T_random, j,
                    k_random, a_random, R, fit_vars, draw_vars, summary,
                    T_pert, epochs, unit_vars >>

ToSeq(a) == [x \in 1..nsim |-> a[x - 1]]

\* lines 328-331 and 370: the summary row of this borehole; line 335
Aggregate ==
    /\ pc = "aggregate"
    /\ summary' = Append(summary,
          [borehole   |-> f,
           Qs         |-> QMul(np_mean(ToSeq(q_all)), mW),
           Qs_c       |-> QMul(np_mean(ToSeq(qc_all)), mW),
           sigma_Qs   |-> StdTimes(np_std(ToSeq(q_all)), mW),
           sigma_Qs_c |-> StdTimes(np_std(ToSeq(qc_all)), mW)])
    /\ R' = thermal_resistance(z_k, k).value
    /\ f' = f + 1
    /\ pc' = "for_file"
    /\ UNCHANGED << setup_vars, store_vars, file_vars, heap, T_random, T_all, i, j,
                    k_random, a_random, fit_vars, draw_vars,
                    T_pert, epochs, filled, unit_vars >>

Next ==
    \/ LoadBorehole
    \/ CloseSummary
    \/ Perturb
    \/ Fit
    \/ PalaeoEpoch
    \/ NasaEpoch
    \/ FitCorrected
    \/ Store
    \/ Aggregate

Spec == Init /\ [][Next]_vars

----------------------------------------------------------------------------
(* One call of one function, with a borehole loaded *)

Call(fn, zz, kk, RR, TT, kappa, ta, tb, tc, Tk) ==
    [fn |-> fn, zz |-> zz, kk |-> kk, RR |-> RR, TT |-> TT,
     kappa |-> kappa, ta |-> ta, tb |-> tb, tc |-> tc, Tk |-> Tk]

\* the z_k a loaded file leaves at module level
LoadedDepths == { load_borehole(BoreholeFiles[x]).z_k : x \in 1..Len(BoreholeFiles) }
              \cup { << << 1, 10 >>, << 1, 5 >>, << 1, 2 >> >> }

DepthArgs == { << << 1, 10 >>, << 1, 2 >> >>, << << 1, 20 >>, << 3, 10 >> >>,
               << << 1, 100 >>, << 1, 5 >> >> }
ConductivityArgs == { << QInt(3), QInt(3) >>, << QInt(3), QInt(2) >>,
                      << << 5, 2 >>, kmin >> }
ResistanceArgs == { << QInt(2) >>, << QInt(2), QInt(2) >>, << Zero, Zero, Zero >>,
                    << QInt(1), QInt(2) >>, << QInt(1), QInt(2), QInt(4) >> }
TemperatureArgs == { << QInt(10) >>, << QInt(10), QInt(12) >>,
                     << QInt(10), QInt(12), QInt(16) >> }
KappaArgs == { << QDiv(QInt(3), QInt(cp * rho)) >>, << QDiv(QInt(2), QInt(cp * rho)) >> }
CorrectionDepths == { << Zero >>, << << 1, 10 >> >>, << Zero, << 1, 2 >> >> }
TimeArgs == { Zero, y2s(QInt(5)), y2s(QInt(1000)), y2s(QInt(3000)), y2s(QInt(12000)) }
DeltaArgs == { QInt(-2), Zero, << 1, 2 >> }

Calls ==
    { Call("thermal_resistance", zz, kk, << >>, << >>, << >>, Zero, Zero, Zero, Zero) :
        zz \in DepthArgs, kk \in ConductivityArgs }
    \cup
    { Call("least_squares", << >>, << >>, RR, TT, << >>, Zero, Zero, Zero, Zero) :
        RR \in ResistanceArgs, TT \in TemperatureArgs }
    \cup
    { Call("climate_correction_period", zz, << >>, << >>, << >>, kappa, e[1], e[2], e[3], Tk) :
        zz \in CorrectionDepths, kappa \in KappaArgs,
        e \in TimeArgs \X TimeArgs \X TimeArgs, Tk \in DeltaArgs }

InitUnit ==
    /\ SetupCells(Palaeo_wide, ZonAnnRows(1965, 10), << BoreholeFiles[1] >>)
    /\ call \in Calls
    /\ z_k \in IF call.fn = "thermal_resistance" THEN LoadedDepths
               ELSE { load_borehole(BoreholeFiles[1]).z_k }
    /\ ret = NoRet
    /\ pc = "unit"

unit_frame == << setup_vars, store_vars, f, file_vars, heap, T_random, T_all, i, j,
                 k_random, a_random, R, fit_vars, draw_vars, summary, pc,
                 T_pert, epochs, filled, call >>

CallThermalResistance ==
    /\ pc = "unit" /\ ret = NoRet
    /\ call.fn = "thermal_resistance"
    /\ ret' = thermal_resistance(call.zz, call.kk)
    /\ UNCHANGED unit_frame

CallLeastSquares ==
    /\ pc = "unit" /\ ret = NoRet
    /\ call.fn = "least_squares"
    /\ ret' = least_squares(call.RR, call.TT)
    /\ UNCHANGED unit_frame

\* the abutting epochs (ta, tb) and (tb, tc) and the merged epoch (ta, tc),
\* their times clipped as lines 303-304 and 310-311 clip them
CallClimateCorrection ==
    /\ pc = "unit" /\ ret = NoRet
    /\ call.fn = "climate_correction_period"
    /\ LET ca == np_clip(call.ta, tmin, tmax)
           cb == np_clip(call.tb, tmin, tmax)
           cc_ == np_clip(call.tc, tmin, tmax)
       IN  ret' = [raised |-> "",
                   value  |-> << climate_correction_period(call.kappa, ca, cb, call.Tk, call.zz),
                                 climate_correction_period(call.kappa, cb, cc_, call.Tk, call.zz),
                                 climate_correction_period(call.kappa, ca, cc_, call.Tk, call.zz) >>]
    /\ UNCHANGED unit_frame

NextUnit ==
    \/ CallThermalResistance
    \/ CallLeastSquares
    \/ CallClimateCorrection

SpecUnit == InitUnit /\ [][NextUnit]_vars

Returned(fn) == call.fn = fn /\ ret # NoRet

----------------------------------------------------------------------------
(* Claims about the functions *)

\* R_i = sum over j <= i of (z_j - z_{j-1})/k_j, with z_0 = 0
RECURSIVE ResistanceAt(_, _, _)
ResistanceAt(zz, kk, n) ==
    IF n = 0 THEN Zero
    ELSE QAdd(ResistanceAt(zz, kk, n - 1),
              QDiv(QSub(zz[n], IF n = 1 THEN Zero ELSE zz[n - 1]), kk[n]))
NonDecreasing(a) == \A x \in 1..(Len(a) - 1) : QLe(a[x], a[x + 1])

\* C1: thermal_resistance(z, k) returns R_i = sum_{j<=i} (z_j - z_{j-1})/k_j
\* computed from the depths z it was passed; R is non-decreasing and
\* R[0] = z_1/k_1.
C1_ResistanceOfArgument ==
    Returned("thermal_resistance") =>
        /\ ret.raised = ""
        /\ ret.value = [x \in 1..Len(call.zz) |-> ResistanceAt(call.zz, call.kk, x)]
        /\ NonDecreasing(ret.value)
        /\ ret.value[1] = QDiv(call.zz[1], call.kk[1])

DistinctValues(a) == { a[x] : x \in 1..Len(a) }

\* C6: least_squares fails with UnderdeterminedFitError, returning no
\* (m, c), when given fewer than 2 distinct resistance values.
C6_UnderdeterminedFails ==
    (Returned("least_squares") /\ Len(call.RR) = Len(call.TT)
        /\ Cardinality(DistinctValues(call.RR)) < 2)
    => (ret.raised = "UnderdeterminedFitError" /\ ret.value = << >>)

\* C7: the corrections of the abutting epochs (t0, t1) and (t1, t2) with the
\* same Tk add up to the correction of the merged epoch (t0, t2).
C7_Superposition ==
    Returned("climate_correction_period") =>
        np_add(ret.value[1], ret.value[2]) = ret.value[3]

C7_Witness ==
    /\ Returned("climate_correction_period")
    /\ \E x \in 1..Len(call.zz) :
          /\ ret.value[1][x] # Zero
          /\ ret.value[2][x] # Zero
          /\ ret.value[3][x] # Zero

SurfaceEpochToPresent ==
    /\ Returned("climate_correction_period")
    /\ call.zz = << Zero >>
    /\ call.tb = Zero

\* C8 as stated: for an epoch with t_end = 0 (clipped to the floor) and any
\* t_start, the correction at z = 0 equals Tk.
C8_SurfaceEqualsDelta ==
    SurfaceEpochToPresent => ret.value[1] = << call.Tk >>

\* C8 amended: for an epoch with t_end = 0 (clipped to the floor) and any
\* t_start, the correction at z = 0 is 0 for every Tk and kappa > 0.
C8_SurfaceIsZero ==
    SurfaceEpochToPresent => ret.value[1] = << Zero >>

C8_Witness ==
    /\ SurfaceEpochToPresent
    /\ call.Tk # Zero
    /\ call.ta # Zero
    /\ ret.value[1] = << Zero >>

----------------------------------------------------------------------------
(* Claims about the borehole loop *)

InIteration == pc \in {"for_i", "fit", "palaeo", "nasa", "fit_c", "store"}
AllZero(a) == \A x \in 1..Len(a) : a[x] = Zero
Last(a) == a[Len(a)]

\* the regression of the unperturbed inputs
DeterministicFit == least_squares(thermal_resistance(z_k, k).value, heap[T_k]).value

RECURSIVE SumCorrections(_, _)
SumCorrections(es, n) ==
    IF n = 0 THEN np_zeros(Len(z_k))
    ELSE np_add(SumCorrections(es, n - 1),
                climate_correction_period(a_random, es[n].t0, es[n].t1, es[n].Tc, z_k))

\* the regression of the unperturbed temperatures corrected with the
\* unperturbed epochs
UnperturbedEpochs ==
    [x \in 1..Len(t0) |-> [t0 |-> np_clip(t0[x], tmin, tmax),
                           t1 |-> np_clip(t1[x], tmin, tmax), Tc |-> Tc[x]]]
    \o [x \in 1..Len(t0b) |-> [t0 |-> np_clip(t0b[x], tmin, tmax),
                               t1 |-> np_clip(t1b[x], tmin, tmax), Tc |-> T0_40N2[x]]]
DeterministicCorrectedFit ==
    LET kap == np_scale(QInv(QInt(cp * rho)), k)
        es  == UnperturbedEpochs
        sum[n \in 0..Len(es)] ==
            IF n = 0 THEN heap[T_k]
            ELSE np_add(sum[n - 1],
                        climate_correction_period(kap, es[n].t0, es[n].t1, es[n].Tc, z_k))
    IN  least_squares(thermal_resistance(z_k, k).value, sum[Len(es)]).value

\* C2 as stated: with zero uncertainty on every input, every iteration gives
\* the same (m, c, m_c, c_c): the means equal the deterministic regression
\* and the standard deviations are 0.
C2_ZeroUncertaintyDeterministic ==
    (pc = "aggregate" /\ AllZero(heap[sigma_T_k]) /\ AllZero(sigma_k) /\ AllZero(sigma_Tc))
    => /\ \A s \in Slots : << q_all[s], c_all[s] >> = DeterministicFit
       /\ \A s \in Slots : << qc_all[s], cc_all[s] >> = DeterministicCorrectedFit
       /\ np_mean(ToSeq(q_all)) = DeterministicFit[1]
       /\ np_mean(ToSeq(qc_all)) = DeterministicCorrectedFit[1]
       /\ np_std(ToSeq(q_all)).sqrt_of = Zero
       /\ np_std(ToSeq(qc_all)).sqrt_of = Zero

\* C2 amended: with zero temperature and conductivity uncertainty, every
\* iteration gives the same uncorrected (m, c): the mean uncorrected heat
\* flow is the deterministic regression result and its standard deviation
\* is 0.  (The corrected fit still varies: the epoch times are drawn with
\* the fixed sigma_t and the instrumental deltas with sigma_T0_40N2.)
C2_ZeroDataUncertaintyUncorrected ==
    /\ (pc = "aggregate" /\ AllZero(heap[sigma_T_k]) /\ AllZero(sigma_k))
       => /\ \A s \in Slots : << q_all[s], c_all[s] >> = DeterministicFit
          /\ np_mean(ToSeq(q_all)) = DeterministicFit[1]
          /\ np_std(ToSeq(q_all)).sqrt_of = Zero
    /\ (pc = "for_file" /\ summary # << >> /\ AllZero(heap[sigma_T_k]) /\ AllZero(sigma_k))
       => /\ Last(summary).Qs = QMul(DeterministicFit[1], mW)
          /\ Last(summary).sigma_Qs.sqrt_of = Zero

C2_Witness ==
    /\ pc = "for_file" /\ summary # << >>
    /\ AllZero(heap[sigma_T_k]) /\ AllZero(sigma_k) /\ AllZero(sigma_Tc)
    /\ Last(summary).sigma_Qs.sqrt_of = Zero
    /\ Last(summary).sigma_Qs_c.sqrt_of # Zero

\* C3: every epoch handed to climate_correction_period, palaeoclimate or
\* instrumental, after perturbation and clipping, has t_end < t_start.
C3_EpochsOrdered ==
    \A x \in 1..Len(epochs) : QLt(epochs[x].t1, epochs[x].t0)

SharedInputs ==
    << heap[T_k], heap[sigma_T_k], z_k, k, sigma_k,
       t0, t1, Tc, sigma_Tc, t0b, t1b, T0_40N2 >>
\* C4: no step of a Monte Carlo iteration changes T_k, sigma_T_k, z_k, k,
\* sigma_k or the epoch arrays; of the storage arrays and T_all only slot i
\* is written.
C4_IterationsLeaveInputs ==
    [][InIteration =>
          /\ SharedInputs' = SharedInputs
          /\ \A s \in Slots \ {i} :
                /\ q_all'[s] = q_all[s]
                /\ c_all'[s] = c_all[s]
                /\ qc_all'[s] = qc_all[s]
                /\ cc_all'[s] = cc_all[s]
                /\ T_all'[s] = T_all[s]]_vars

C4_Witness ==
    /\ pc = "aggregate"
    /\ heap[T_random] # T_pert
    /\ T_pert = heap[T_k]
    /\ T_all[i] # heap[T_k]

\* C5: the interpolator yields one temperature and one uncertainty per
\* conductivity depth (also when len(z) <= 3), so least_squares gets
\* temperatures and resistances of equal length.
C5_OneTemperaturePerDepth ==
    InIteration =>
        /\ Len(heap[T_k]) = Len(z_k)
        /\ Len(heap[sigma_T_k]) = Len(z_k)
        /\ (pc = "fit" => Len(heap[T_random]) = Len(R))

EpochOrder ==
    [x \in 1..Len(t0) |-> << "palaeo", x - 1 >>]
    \o [x \in 1..Len(t0b) |-> << "nasa", x - 1 >>]

\* C9: in every iteration, on one resistance profile R, (q, c) is fitted to
\* the perturbed temperatures before any correction is added; every epoch of
\* both sets is then added exactly once, in order; (qc, cc) is fitted to the
\* result, which is the row of T_all recorded for the iteration.
C9_IterationOrder ==
    /\ pc \in {"fit", "palaeo", "nasa", "fit_c", "store"} =>
          R = thermal_resistance(z_k, k_random).value
    /\ pc = "fit" => epochs = << >> /\ heap[T_random] = T_pert
    /\ pc \in {"palaeo", "nasa", "fit_c", "store"} =>
          /\ heap[T_random] = np_add(T_pert, SumCorrections(epochs, Len(epochs)))
          /\ \A x \in 1..Len(epochs) :
                << epochs[x].set, epochs[x].index >> = EpochOrder[x]
    /\ pc \in {"palaeo", "nasa", "fit_c", "store"} =>
          << q, c >> = least_squares(R, T_pert).value
    /\ pc \in {"fit_c", "store"} => Len(epochs) = Len(t0) + Len(t0b)
    /\ pc = "store" => << qc, cc >> = least_squares(R, heap[T_random]).value
    /\ pc = "aggregate" =>
          /\ Len(epochs) = Len(t0) + Len(t0b)
          /\ T_all[i] = np_add(T_pert, SumCorrections(epochs, Len(epochs)))
          /\ << q_all[i], c_all[i] >> = least_squares(R, T_pert).value
          /\ << qc_all[i], cc_all[i] >> = least_squares(R, T_all[i]).value

C9_Witness ==
    /\ pc = "aggregate"
    /\ T_all[i] # T_pert
    /\ T_pert # heap[T_k]
    /\ qc_all[i] # q_all[i]
    /\ \E x \in 1..Len(epochs) : epochs[x].set = "palaeo"
    /\ \E x \in 1..Len(epochs) : epochs[x].set = "nasa"

\* the (q, c, qc, cc) an iteration of the loaded borehole can produce
PossibleFits ==
    { least_squares(thermal_resistance(z_k, np_clip_array(kr, kmin, kmax)).value, Tr).value :
        Tr \in normal_array(heap[T_k], heap[sigma_T_k]), kr \in normal_array(k, sigma_k) }

\* C10: when a borehole's mean and standard deviation are computed, every
\* slot of the storage arrays has been written by an iteration of that
\* borehole.
C10_SlotsOfThisBorehole ==
    pc = "aggregate" =>
        /\ filled = Slots
        /\ \A s \in Slots : << q_all[s], c_all[s] >> \in PossibleFits

C10_Witness ==
    /\ pc = "aggregate"
    /\ f = 2
    /\ QDiv(summary[1].Qs, mW) \notin { p[1] : p \in PossibleFits }

=============================================================================
